---- MODULE Spec2Model ----
(***************************************************************************)
(* TradeMachine (src/app.py): the merge of the performance and injury      *)
(* tables, the week clock, the per-player score, the player ranking and    *)
(* the trade evaluation.                                                   *)
(*                                                                         *)
(* Cell values and scores are Python/numpy floats (IEEE-754 binary64).     *)
(* They are modelled bit-exactly for finite values of moderate magnitude   *)
(* (no overflow, no subnormals, no NaN): a float is a sign, a 53-bit       *)
(* mantissa held as a little-endian sequence of limbs, and an exponent;    *)
(* every arithmetic operation computes the exact result and rounds it to   *)
(* nearest, ties to even.                                                  *)
(***************************************************************************)
EXTENDS Integers, Sequences, FiniteSets, TLC

(***************************************************************************)
(* Natural numbers of any size: little-endian limbs in 0..Base-1, no      *)
(* leading zero limb, zero is <<>>.                                        *)
(***************************************************************************)
LimbBits == 15
Base == 2 ^ LimbBits

Limb(a, i) == IF i <= Len(a) THEN a[i] ELSE 0

RECURSIVE Norm(_)
Norm(a) == IF a = <<>> THEN <<>>
           ELSE IF a[Len(a)] = 0 THEN Norm(SubSeq(a, 1, Len(a) - 1))
           ELSE a

FromNat(n) == Norm(<<n % Base, (n \div Base) % Base, n \div (Base * Base)>>)

RECURSIVE AddC(_, _, _, _)
AddC(a, b, i, c) ==
    IF i > Len(a) /\ i > Len(b)
    THEN IF c = 0 THEN <<>> ELSE <<c>>
    ELSE LET s == Limb(a, i) + Limb(b, i) + c
         IN  <<s % Base>> \o AddC(a, b, i + 1, s \div Base)

BAdd(a, b) == AddC(a, b, 1, 0)

RECURSIVE SubC(_, _, _, _)
SubC(a, b, i, c) ==
    IF i > Len(a) THEN <<>>
    ELSE LET s == a[i] - Limb(b, i) - c
         IN  IF s < 0 THEN <<s + Base>> \o SubC(a, b, i + 1, 1)
             ELSE <<s>> \o SubC(a, b, i + 1, 0)

\* a - b for a >= b
BSub(a, b) == Norm(SubC(a, b, 1, 0))

RECURSIVE CmpFrom(_, _, _)
CmpFrom(a, b, i) ==
    IF i = 0 THEN 0
    ELSE IF a[i] < b[i] THEN -1
    ELSE IF a[i] > b[i] THEN 1
    ELSE CmpFrom(a, b, i - 1)

\* -1, 0, 1 as a < b, a = b, a > b
BCmp(a, b) ==
    IF Len(a) < Len(b) THEN -1
    ELSE IF Len(a) > Len(b) THEN 1
    ELSE CmpFrom(a, b, Len(a))

RECURSIVE MulC(_, _, _, _)
MulC(a, d, i, c) ==
    IF i > Len(a)
    THEN IF c = 0 THEN <<>> ELSE <<c>>
    ELSE LET s == a[i] * d + c
         IN  <<s % Base>> \o MulC(a, d, i + 1, s \div Base)

\* a * d for 0 <= d < Base
BMulSmall(a, d) == IF d = 0 THEN <<>> ELSE MulC(a, d, 1, 0)

Zeros(k) == [i \in 1..k |-> 0]

BShlLimbs(a, k) == IF a = <<>> THEN <<>> ELSE Zeros(k) \o a

RECURSIVE MulFrom(_, _, _)
MulFrom(a, b, j) ==
    IF j > Len(b) THEN <<>>
    ELSE BAdd(BShlLimbs(BMulSmall(a, b[j]), j - 1), MulFrom(a, b, j + 1))

BMul(a, b) == MulFrom(a, b, 1)

RECURSIVE SmallBitLen(_)
SmallBitLen(n) == IF n = 0 THEN 0 ELSE 1 + SmallBitLen(n \div 2)

BitLen(a) == IF a = <<>> THEN 0
             ELSE LimbBits * (Len(a) - 1) + SmallBitLen(a[Len(a)])

\* a * 2^s
BShl(a, s) == BMulSmall(BShlLimbs(a, s \div LimbBits), 2 ^ (s % LimbBits))

PutDigit(rest, digit) == [q |-> Append(rest.q, digit), r |-> rest.r]

\* quotient limbs i..1 of (r * Base^i + a[1..i]) \div d, least significant first
RECURSIVE DivC(_, _, _, _)
DivC(a, d, i, r) ==
    IF i = 0 THEN [q |-> <<>>, r |-> r]
    ELSE PutDigit(DivC(a, d, i - 1, (r * Base + a[i]) % d),
                  (r * Base + a[i]) \div d)

NormQ(res) == [q |-> Norm(res.q), r |-> res.r]

\* [q, r]: a = q * d + r for 0 < d < Base
BDivSmall(a, d) == NormQ(DivC(a, d, Len(a), 0))

\* floor(a / 2^s)
BShr(a, s) ==
    LET k == s \div LimbBits
    IN  IF k >= Len(a) THEN <<>>
        ELSE BDivSmall(SubSeq(a, k + 1, Len(a)), 2 ^ (s % LimbBits)).q

\* bit i (0 = least significant) of a
Bit(a, i) == (Limb(a, (i \div LimbBits) + 1) \div (2 ^ (i % LimbBits))) % 2

\* the quotient limb is hi, hi - 1 or hi - 2
QuotientLimb(d, cur, hi) ==
    IF BCmp(BMulSmall(d, hi), cur) <= 0 THEN hi
    ELSE IF BCmp(BMulSmall(d, hi - 1), cur) <= 0 THEN hi - 1
    ELSE hi - 2

Estimate(d, cur, n) ==
    QuotientLimb(d, cur,
                 IF (Limb(cur, n + 1) * Base + Limb(cur, n)) \div d[n] > Base - 1
                 THEN Base - 1
                 ELSE (Limb(cur, n + 1) * Base + Limb(cur, n)) \div d[n])

PutLimb(rest, qi) == [q |-> Append(rest.q, qi), r |-> rest.r]

\* schoolbook long division by d of n limbs whose top bit is set, one quotient
\* limb per step: r < d is the running remainder, limbs i..1 of a are left
RECURSIVE LongDiv(_, _, _, _)
RECURSIVE LongDivStep(_, _, _, _, _)
LongDivStep(a, d, i, cur, qi) ==
    PutLimb(LongDiv(a, d, i - 1, BSub(cur, BMulSmall(d, qi))), qi)

RECURSIVE LongDivAt(_, _, _, _)
LongDivAt(a, d, i, cur) == LongDivStep(a, d, i, cur, Estimate(d, cur, Len(d)))

LongDiv(a, d, i, r) ==
    IF i = 0 THEN [q |-> <<>>, r |-> r]
    ELSE LongDivAt(a, d, i, Norm(<<a[i]>> \o r))

LongDivAll(a, d) == LongDiv(a, d, Len(a), <<>>)

Denormalised(res, sft) == [q |-> Norm(res.q), r |-> BShr(res.r, sft)]

LongDivBy(a, d, sft) ==
    Denormalised(LongDivAll(BShl(a, sft), BShl(d, sft)), sft)

SmallDivMod(res) == [q |-> res.q, r |-> FromNat(res.r)]

\* [q, r]: a = q * d + r for d > 0 (r scaled back from the normalised divisor)
BDivMod(a, d) ==
    IF Len(d) = 1 THEN SmallDivMod(BDivSmall(a, d[1]))
    ELSE LongDivBy(a, d, LimbBits - SmallBitLen(d[Len(d)]))

(***************************************************************************)
(* Floats: [s |-> 1 or -1, m |-> mantissa of exactly Precision bits,       *)
(* e |-> exponent], of value s * m * 2^e; zero is FZero.                   *)
(***************************************************************************)
Precision == 53

FZero == [s |-> 1, m |-> <<>>, e |-> 0]

\* a quotient that has gained a bit by rounding up is halved
Pack(s, q, E) ==
    IF BitLen(q) > Precision THEN [s |-> s, m |-> BShr(q, 1), e |-> E + 1]
    ELSE [s |-> s, m |-> q, e |-> E]

\* q = floor(M / 2^sh) goes up when the rest is above one half, or is one
\* half (with nothing below it) and q is odd
RoundsUp(q, c, sticky) == c > 0 \/ (c = 0 /\ (sticky \/ Bit(q, 0) = 1))

Nearest(M, q, sh, sticky) ==
    IF RoundsUp(q, BCmp(BSub(M, BShl(q, sh)), BShl(<<1>>, sh - 1)), sticky)
    THEN BAdd(q, <<1>>) ELSE q

\* M / 2^sh (plus a nonzero part below the last bit of M when sticky),
\* rounded to the nearest integer, ties to even, for sh > 0
RoundShr(M, sh, sticky) == Nearest(M, BShr(M, sh), sh, sticky)

\* M # 0 of L bits brought to exactly Precision bits
Normalise(s, M, E, sticky, L) ==
    IF L <= Precision
    THEN [s |-> s, m |-> BShl(M, Precision - L), e |-> E - (Precision - L)]
    ELSE Pack(s, RoundShr(M, L - Precision, sticky), E + (L - Precision))

\* s * M * 2^E (plus a nonzero part below the last bit of M when sticky),
\* rounded to nearest, ties to even
FRound(s, M, E, sticky) ==
    IF M = <<>> THEN FZero ELSE Normalise(s, M, E, sticky, BitLen(M))

FromInt(n) == FRound(IF n < 0 THEN -1 ELSE 1, FromNat(IF n < 0 THEN -n ELSE n), 0, FALSE)

FNeg(x) == IF x.m = <<>> THEN x ELSE [x EXCEPT !.s = -x.s]

\* -1, 0, 1 as |x| < |y|, |x| = |y|, |x| > |y|
MagCmp(x, y) ==
    IF x.m = <<>> THEN (IF y.m = <<>> THEN 0 ELSE -1)
    ELSE IF y.m = <<>> THEN 1
    ELSE IF x.e < y.e THEN -1
    ELSE IF x.e > y.e THEN 1
    ELSE BCmp(x.m, y.m)

\* -1, 0, 1 as x < y, x = y, x > y
FCmp(x, y) ==
    LET sx == IF x.m = <<>> THEN 0 ELSE x.s
        sy == IF y.m = <<>> THEN 0 ELSE y.s
    IN  IF sx < sy THEN -1
        ELSE IF sx > sy THEN 1
        ELSE IF sx = 0 THEN 0
        ELSE sx * MagCmp(x, y)

AddMagnitudes(x, y, e, mx, my, c) ==
    FRound(IF x.s = y.s \/ c > 0 THEN x.s ELSE y.s,
           IF x.s = y.s THEN BAdd(mx, my)
           ELSE IF c > 0 THEN BSub(mx, my) ELSE BSub(my, mx),
           e, FALSE)

AddAligned(x, y, e, mx, my) == AddMagnitudes(x, y, e, mx, my, BCmp(mx, my))

AddAt(x, y, e) == AddAligned(x, y, e, BShl(x.m, x.e - e), BShl(y.m, y.e - e))

FAdd(x, y) ==
    IF x.m = <<>> THEN y
    ELSE IF y.m = <<>> THEN x
    ELSE AddAt(x, y, IF x.e < y.e THEN x.e ELSE y.e)

FMul(x, y) ==
    IF x.m = <<>> \/ y.m = <<>> THEN FZero
    ELSE FRound(x.s * y.s, BMul(x.m, y.m), x.e + y.e, FALSE)

RECURSIVE SmallTrailingZeros(_)
SmallTrailingZeros(n) == IF n % 2 = 1 THEN 0 ELSE 1 + SmallTrailingZeros(n \div 2)

\* the number of zero bits below the lowest set bit of a # 0, from limb i on
RECURSIVE TrailingZeros(_, _)
TrailingZeros(a, i) ==
    IF a[i] = 0 THEN LimbBits + TrailingZeros(a, i + 1)
    ELSE SmallTrailingZeros(a[i])

DivRounded(x, y, t, k, qr) ==
    FRound(x.s * y.s, qr.q, x.e - (y.e + t) - k, qr.r # <<>>)

DivScaled(x, y, t, d, k) == DivRounded(x, y, t, k, BDivMod(BShl(x.m, k), d))

\* the divisor's mantissa without its t trailing zeros
DivOdd(x, y, t, d) == DivScaled(x, y, t, d, BitLen(d) + 3)

DivShifted(x, y, t) == DivOdd(x, y, t, BShr(y.m, t))

\* x / y for y # 0
FDiv(x, y) ==
    IF x.m = <<>> THEN FZero ELSE DivShifted(x, y, TrailingZeros(y.m, 1))

\* x rounded to the nearest integer, ties to even
FRint(x) ==
    IF x.m = <<>> \/ x.e >= 0 THEN x
    ELSE IF -x.e > Precision + 1 THEN FZero
    ELSE FRound(x.s, RoundShr(x.m, -x.e, FALSE), 0, FALSE)

(***************************************************************************)
(* The program's state.                                                    *)
(***************************************************************************)
VARIABLES
    scores_file,     \* merged_scores.xlsx: [columns, rows]
    injury_file,     \* nba-injury-report.xlsx: [columns, rows]
    data,            \* the merged DataFrame the handlers work on
    now,             \* datetime.now(), in ticks (TicksPerDay a day) since the base date
    week,            \* the week the last handler worked with
    team1_selected,  \* the form's multiselect for Team 1
    team2_selected,  \* the form's multiselect for Team 2
    out              \* what the last operation returned or rendered

vars == <<scores_file, injury_file, data, now, week,
          team1_selected, team2_selected, out>>

NoOutput == [kind |-> "none"]

(***************************************************************************)
(* Spreadsheet numbers.  A numeric cell is held as an integer number of    *)
(* hundredths; the value pandas reads from it is the float nearest to it.  *)
(***************************************************************************)
CellFloat(c) == FDiv(FromInt(c), FromInt(100))

\* Python's max(2, v): v when v > 2, else the first argument
Max2(v) == IF FCmp(v, FromInt(2)) > 0 THEN v ELSE FromInt(2)

(***************************************************************************)
(* calculate_week                                                          *)
(***************************************************************************)
TicksPerDay == 2

\* timedelta.days: whole days since the base date, rounded down
DeltaDays(t) == t \div TicksPerDay

calculate_week_TruncatingDivision(t) ==
    LET d == DeltaDays(t)
        q == IF d >= 0 THEN d \div 7 ELSE -((-d) \div 7)
    IN  IF q + 1 > 0 THEN q + 1 ELSE 0

calculate_week(t) ==
    LET w == (DeltaDays(t) \div 7) + 1
    IN  IF w > 0 THEN w ELSE 0

(***************************************************************************)
(* calculate_score                                                         *)
(***************************************************************************)
\* data[data['Player_Name'] == player_name].iloc[0]
RECURSIVE FirstMatch(_, _, _)
FirstMatch(rows, player_name, i) ==
    IF rows[i]["Player_Name"] = player_name THEN rows[i]
    ELSE FirstMatch(rows, player_name, i + 1)

HasPlayer(df, player_name) ==
    /\ "Player_Name" \in DOMAIN df.rows[1]
    /\ \E i \in 1..Len(df.rows) : df.rows[i]["Player_Name"] = player_name

Interpolate(wk, regular, projection) ==
    FAdd(FDiv(FMul(FromInt(20 - wk), projection), FromInt(20)),
         FDiv(FMul(FromInt(wk), regular), FromInt(20)))

calculate_score_NoFinalFloor(player_name, wk, df) ==
    LET player_data == FirstMatch(df.rows, player_name, 1)
    IN  Interpolate(wk, Max2(CellFloat(player_data["Regular"])),
                        Max2(CellFloat(player_data["Projection"])))

calculate_score_SwappedWeights(player_name, wk, df) ==
    LET player_data == FirstMatch(df.rows, player_name, 1)
    IN  Max2(Interpolate(wk, Max2(CellFloat(player_data["Projection"])),
                             Max2(CellFloat(player_data["Regular"]))))

calculate_score(player_name, wk, df) ==
    LET player_data == FirstMatch(df.rows, player_name, 1)
        regular     == Max2(CellFloat(player_data["Regular"]))
        projection  == Max2(CellFloat(player_data["Projection"]))
    IN  Max2(Interpolate(wk, regular, projection))

(***************************************************************************)
(* read_data: pd.merge(df_scores, df_injuries, how='left'), fillna, drop.  *)
(* A DataFrame is [columns |-> the column names in order, rows |-> the     *)
(* rows in order, each a function from column name to cell].               *)
(***************************************************************************)
EmptyFrame == [columns |-> <<>>, rows |-> <<>>]

NaN == "NaN"

InSeq(x, sq) == \E i \in 1..Len(sq) : sq[i] = x

RECURSIVE Without(_, _)
Without(sq, x) ==
    IF sq = <<>> THEN <<>>
    ELSE IF sq[1] = x THEN Without(Tail(sq), x)
    ELSE <<sq[1]>> \o Without(Tail(sq), x)

RECURSIVE Concat(_)
Concat(sqs) == IF sqs = <<>> THEN <<>> ELSE sqs[1] \o Concat(Tail(sqs))

\* the name a column gets in the merged frame: a name both frames carry,
\* other than a key of the same name on both sides, gets a suffix
MergedName(c, suffix, left, right, left_on, right_on) ==
    IF InSeq(c, left.columns) /\ InSeq(c, right.columns)
       /\ ~(left_on = right_on /\ c = left_on)
    THEN c \o suffix ELSE c

MergedColumns(left, right, left_on, right_on) ==
    [i \in 1..Len(left.columns) |->
        MergedName(left.columns[i], "_x", left, right, left_on, right_on)]
    \o LET rc == IF left_on = right_on THEN Without(right.columns, right_on)
                 ELSE right.columns
       IN  [i \in 1..Len(rc) |->
               MergedName(rc[i], "_y", left, right, left_on, right_on)]

\* one merged row: the left row with the cells of right row j, or with NaN
\* in the right frame's columns when j = 0 (no match)
MergedRow(left, right, left_on, right_on, lrow, j) ==
    LET cols == MergedColumns(left, right, left_on, right_on)
    IN  [c \in {cols[i] : i \in 1..Len(cols)} |->
            LET li == {i \in 1..Len(left.columns) :
                         MergedName(left.columns[i], "_x", left, right,
                                    left_on, right_on) = c}
                ri == {i \in 1..Len(right.columns) :
                         MergedName(right.columns[i], "_y", left, right,
                                    left_on, right_on) = c}
            IN  IF li # {} THEN lrow[left.columns[CHOOSE i \in li : TRUE]]
                ELSE IF j = 0 THEN NaN
                ELSE right.rows[j][right.columns[CHOOSE i \in ri : TRUE]]]

\* the rows a left row becomes: one per matching right row, in the right
\* frame's order, or one with NaN when none matches
RECURSIVE MatchesFrom(_, _, _, _)
MatchesFrom(right, right_on, key, j) ==
    IF j > Len(right.rows) THEN <<>>
    ELSE (IF right.rows[j][right_on] = key THEN <<j>> ELSE <<>>)
         \o MatchesFrom(right, right_on, key, j + 1)

RowsFor(left, right, left_on, right_on, lrow) ==
    LET ms == MatchesFrom(right, right_on, lrow[left_on], 1)
    IN  IF ms = <<>> THEN <<MergedRow(left, right, left_on, right_on, lrow, 0)>>
        ELSE [k \in 1..Len(ms) |->
                 MergedRow(left, right, left_on, right_on, lrow, ms[k])]

merge(left, right, left_on, right_on) ==
    [columns |-> MergedColumns(left, right, left_on, right_on),
     rows    |-> Concat([i \in 1..Len(left.rows) |->
                           RowsFor(left, right, left_on, right_on, left.rows[i])])]

fillna(df, column, value) ==
    [df EXCEPT !.rows = [i \in 1..Len(df.rows) |->
        [df.rows[i] EXCEPT ![column] = IF @ = NaN THEN value ELSE @]]]

drop(df, column) ==
    [columns |-> Without(df.columns, column),
     rows    |-> [i \in 1..Len(df.rows) |->
                    [c \in (DOMAIN df.rows[i]) \ {column} |-> df.rows[i][c]]]]

\* a KeyError (a missing key or Injury/Status column) is caught and an empty
\* DataFrame returned
read_data(df_scores, df_injuries) ==
    LET left_on == IF InSeq("Player_Name", df_scores.columns)
                   THEN "Player_Name" ELSE "Player"
    IN  IF \/ ~InSeq(left_on, df_scores.columns)
           \/ ~InSeq("Player", df_injuries.columns)
        THEN EmptyFrame
        ELSE LET merged_df == merge(df_scores, df_injuries, left_on, "Player")
             IN  IF \/ ~InSeq("Injury", merged_df.columns)
                    \/ ~InSeq("Status", merged_df.columns)
                 THEN EmptyFrame
                 ELSE LET filled == fillna(fillna(merged_df, "Injury", "Healthy"),
                                           "Status", "Active")
                      IN  IF InSeq("Player", filled.columns)
                          THEN drop(filled, "Player") ELSE filled

(***************************************************************************)
(* evaluate_trade and the form's validation in main.                       *)
(***************************************************************************)
\* sum(scores): Python's sum starts from 0 and adds from the left
RECURSIVE SumFrom(_, _, _)
SumFrom(scores, i, acc) ==
    IF i > Len(scores) THEN acc
    ELSE SumFrom(scores, i + 1, FAdd(acc, scores[i]))

sum(scores) == SumFrom(scores, 1, FZero)

FillerScore_Zero == FZero

\* the score of an empty slot, 2.00
FillerScore == FromInt(2)

empty_slots_BothSides(own, other) ==
    IF own < other THEN other - own ELSE own - other

\* the empty slots a side of `own` players gets against one of `other`
empty_slots(own, other) == IF own < other THEN other - own ELSE 0

trade_ratio_OneWay(team1_total, team2_total) == FDiv(team1_total, team2_total)

\* min(team1_total / team2_total, team2_total / team1_total); Python's min
\* keeps its first argument unless the second is smaller
trade_ratio(team1_total, team2_total) ==
    LET a == FDiv(team1_total, team2_total)
        b == FDiv(team2_total, team1_total)
    IN  IF FCmp(b, a) < 0 THEN b ELSE a

approval_Strict(ratio) == FCmp(ratio, CellFloat(80)) > 0

\* trade_ratio >= 0.80
approval(ratio) == FCmp(ratio, CellFloat(80)) >= 0

\* one side: its players' scores and details, then its empty slots
TeamScores(df, wk, players, other) ==
    [i \in 1..Len(players) |-> calculate_score(players[i], wk, df)]
    \o [i \in 1..empty_slots(Len(players), Len(other)) |-> FillerScore]

TeamDetails(df, wk, players, other) ==
    [i \in 1..Len(players) |->
        LET player_data == FirstMatch(df.rows, players[i], 1)
        IN  [player     |-> players[i],
             regular    |-> Max2(CellFloat(player_data["Regular"])),
             projection |-> Max2(CellFloat(player_data["Projection"]))]]
    \o [i \in 1..empty_slots(Len(players), Len(other)) |->
           [player |-> "Empty Slot", regular |-> FillerScore,
            projection |-> FillerScore]]

\* team_total += 2.00 * empty_slots
Padded(total, slots) ==
    IF slots > 0 THEN FAdd(total, FMul(FillerScore, FromInt(slots))) ELSE total

TeamTotal(df, wk, players, other) ==
    Padded(sum([i \in 1..Len(players) |-> calculate_score(players[i], wk, df)]),
           empty_slots(Len(players), Len(other)))

\* lines 184-204
Verdict(shown, ratio) ==
    [kind        |-> "evaluated",
     shown       |-> shown,
     trade_ratio |-> ratio,
     approved    |-> approval(ratio)]

\* lines 179-204
Outcome(shown) ==
    IF shown.team1_total = FZero \/ shown.team2_total = FZero
    THEN [kind |-> "zero_total_warning", shown |-> shown]
    ELSE Verdict(shown, trade_ratio(shown.team1_total, shown.team2_total))

\* evaluate_trade from line 111 on, for the week line 108 found
trade_in_week(df, wk, team1_players, team2_players) ==
    Outcome([week          |-> wk,
             team1_scores  |-> TeamScores(df, wk, team1_players, team2_players),
             team2_scores  |-> TeamScores(df, wk, team2_players, team1_players),
             team1_details |-> TeamDetails(df, wk, team1_players, team2_players),
             team2_details |-> TeamDetails(df, wk, team2_players, team1_players),
             team1_total   |-> TeamTotal(df, wk, team1_players, team2_players),
             team2_total   |-> TeamTotal(df, wk, team2_players, team1_players)])

evaluate_trade(df, t, team1_players, team2_players) ==
    trade_in_week(df, calculate_week(t), team1_players, team2_players)

Names(players) == {players[i] : i \in 1..Len(players)}

validate_NoDuplicateCheck(team1, team2) ==
    IF team1 = <<>> /\ team2 = <<>> THEN "empty_warning" ELSE "ok"

\* main, lines 365-373
validate(team1, team2) ==
    IF Names(team1) \cap Names(team2) # {} THEN "duplicate_error"
    ELSE IF team1 = <<>> /\ team2 = <<>> THEN "empty_warning"
    ELSE "ok"

submit(df, t, team1, team2) ==
    LET verdict == validate(team1, team2)
    IN  IF verdict = "ok" THEN evaluate_trade(df, t, team1, team2)
        ELSE [kind |-> verdict]

(***************************************************************************)
(* display_player_rankings                                                 *)
(***************************************************************************)
\* numpy's round(x, 2): rint(x * 100) / 100
round2(x) == FDiv(FRint(FMul(x, FromInt(100))), FromInt(100))

\* a natural number below Base^2 as an integer
ToNat(a) == Limb(a, 1) + Base * Limb(a, 2)

\* n * 2^e rounded to an integer, ties to even
Scaled(n, e) ==
    IF e >= 0 THEN ToNat(BShl(n, e)) ELSE ToNat(RoundShr(n, -e, FALSE))

\* f"{x:.2f}": the exact value of x rounded to hundredths, ties to even
Hundredths(x) == IF x.m = <<>> THEN 0 ELSE Scaled(BMulSmall(x.m, 100), x.e)

TwoDecimals(s, h) ==
    (IF s < 0 THEN "-" ELSE "") \o ToString(h \div 100) \o "."
    \o ToString((h \div 10) % 10) \o ToString(h % 10)

Format2f(x) == TwoDecimals(x.s, Hundredths(x))

\* the score of a row without the floors of calculate_score
RawScore(row, wk) ==
    Interpolate(wk, CellFloat(row["Regular"]), CellFloat(row["Projection"]))

\* data[column] = values: a new column goes last, an old one is overwritten
SetColumn(df, column, values) ==
    [columns |-> IF InSeq(column, df.columns) THEN df.columns
                 ELSE Append(df.columns, column),
     rows    |-> [i \in 1..Len(df.rows) |->
                    [c \in (DOMAIN df.rows[i]) \cup {column} |->
                        IF c = column THEN values[i] ELSE df.rows[i][c]]]]

Orderings(n) ==
    {p \in [1..n -> 1..n] : \A i, j \in 1..n : p[i] = p[j] => i = j}

sort_values_Ascending(df, by) ==
    {[df EXCEPT !.rows = [k \in 1..Len(df.rows) |-> df.rows[p[k]]]] :
        p \in {q \in Orderings(Len(df.rows)) :
                 \A k \in 1..(Len(df.rows) - 1) :
                     FCmp(df.rows[q[k]][by], df.rows[q[k + 1]][by]) <= 0}}

\* data.sort_values(by=by, ascending=False): the default sort (quicksort)
\* is not stable, so rows of equal value come out in any order
sort_values(df, by) ==
    {[df EXCEPT !.rows = [k \in 1..Len(df.rows) |-> df.rows[p[k]]]] :
        p \in {q \in Orderings(Len(df.rows)) :
                 \A k \in 1..(Len(df.rows) - 1) :
                     FCmp(df.rows[q[k]][by], df.rows[q[k + 1]][by]) >= 0}}

\* sorted_data[[...]]
Select(df, columns) ==
    [columns |-> columns,
     rows    |-> [i \in 1..Len(df.rows) |->
                    [c \in {columns[k] : k \in 1..Len(columns)} |-> df.rows[i][c]]]]

DisplayColumn(wk) == "Total_Score (Week " \o ToString(wk) \o ")"

\* lines 235-241: the frame with its two score columns
WithScores(df, wk) ==
    LET total == [i \in 1..Len(df.rows) |-> round2(RawScore(df.rows[i], wk))]
    IN  SetColumn(SetColumn(df, "Total_Score", total), DisplayColumn(wk),
                  [i \in 1..Len(df.rows) |-> Format2f(total[i])])

RankingTable(sorted_data, wk) ==
    [index_name |-> "Rank",
     index      |-> [k \in 1..Len(sorted_data.rows) |-> k],
     table      |-> Select(sorted_data, <<"Player_Name", "Regular", "Projection",
                                         DisplayColumn(wk)>>)]

display_player_rankings_SortInPlace(df, t) ==
    LET wk == calculate_week(t)
    IN  {[data |-> sorted_data, week |-> wk, shown |-> RankingTable(sorted_data, wk)] :
            sorted_data \in sort_values(WithScores(df, wk), "Total_Score")}

\* the outcomes of display_player_rankings(data): data as it is left, and
\* the table shown
display_player_rankings(df, t) ==
    LET wk     == calculate_week(t)
        scored == WithScores(df, wk)
    IN  {[data |-> scored, week |-> wk, shown |-> RankingTable(sorted_data, wk)] :
            sorted_data \in sort_values(scored, "Total_Score")}

(***************************************************************************)
(* Bounds and input sets.                                                  *)
(***************************************************************************)
\* the clock runs from MinNow ticks before the base date to MaxNow after
MinNow == 40
MaxNow == 300
\* weeks handed to calculate_score: -MinWeek .. MaxWeek
MinWeek == 2
MaxWeek == 22
\* rows of the files handed to read_data
MaxMergeRows == 2
\* players selected for one side of a trade
MaxSide == 3
\* rows of the table that is ranked
MaxRankRows == 3

\* Regular and Projection cells, in hundredths: below, at and above the
\* floor of 2, whole numbers and decimals
CellValues == {-500, 0, 150, 200, 202, 300, 323, 700, 1000, 2000, 4567}

\* the players of the input files, with their Regular and Projection cells
RegularCell(name) ==
    CASE name = "A" -> 1000 [] name = "B" -> 1000 [] name = "C" -> 1000
      [] name = "D" -> 800  [] name = "E" -> 1200
      [] name = "F" -> 323  [] name = "G" -> 0
      [] name = "H" -> -500 [] name = "I" -> 4567
      [] name = "J" -> 1001 [] name = "K" -> 1003

ProjectionCell(name) ==
    CASE name = "A" -> 1000 [] name = "B" -> 1000 [] name = "C" -> 1000
      [] name = "D" -> 1200 [] name = "E" -> 800
      [] name = "F" -> 202  [] name = "G" -> 150
      [] name = "H" -> 3000 [] name = "I" -> 3890
      [] name = "J" -> 1000 [] name = "K" -> 1003

\* a scores file with the given identity columns and one row per name
ScoresFile(idcols, names) ==
    [columns |-> idcols \o <<"Regular", "Projection">>,
     rows    |-> [i \in 1..Len(names) |->
                    [c \in {idcols[k] : k \in 1..Len(idcols)}
                           \cup {"Regular", "Projection"} |->
                        IF c = "Regular" THEN RegularCell(names[i])
                        ELSE IF c = "Projection" THEN ProjectionCell(names[i])
                        ELSE names[i]]]]

InjuryRow(name) ==
    [Player |-> name,
     Injury |-> IF name = "A" THEN "Ankle" ELSE IF name = "F" THEN "Knee" ELSE "Back",
     Status |-> IF name = "F" THEN "Day-To-Day" ELSE "Out"]

InjuryFile(names) ==
    [columns |-> <<"Player", "Injury", "Status">>,
     rows    |-> [i \in 1..Len(names) |-> InjuryRow(names[i])]]

\* sequences over S of length at most n
RECURSIVE SeqsUpTo(_, _)
SeqsUpTo(S, n) ==
    IF n = 0 THEN {<<>>}
    ELSE LET shorter == SeqsUpTo(S, n - 1)
         IN  shorter \cup {Append(sq, x) : sq \in shorter, x \in S}

NoRepeat(sq) == \A i, j \in 1..Len(sq) : sq[i] = sq[j] => i = j

(***************************************************************************)
(* SpecWeek: the clock advances and calculate_week is read.                *)
(***************************************************************************)
Idle == /\ scores_file = [columns |-> <<>>, rows |-> <<>>]
        /\ injury_file = [columns |-> <<>>, rows |-> <<>>]
        /\ data = EmptyFrame
        /\ team1_selected = <<>>
        /\ team2_selected = <<>>

InitWeek ==
    /\ Idle
    /\ now = -MinNow
    /\ week = calculate_week(now)
    /\ out = NoOutput

Tick ==
    /\ now < MaxNow
    /\ now' = now + 1
    /\ week' = calculate_week(now')
    /\ UNCHANGED <<scores_file, injury_file, data, team1_selected,
                   team2_selected, out>>

NextWeek == Tick

SpecWeek == InitWeek /\ [][NextWeek]_vars

(***************************************************************************)
(* SpecScore: calculate_score applied to one record and one week.          *)
(***************************************************************************)
OneRow(regular, projection) ==
    [columns |-> <<"Player_Name", "Regular", "Projection">>,
     rows    |-> <<[Player_Name |-> "P", Regular |-> regular,
                    Projection |-> projection]>>]

InitScore ==
    /\ scores_file = [columns |-> <<>>, rows |-> <<>>]
    /\ injury_file = [columns |-> <<>>, rows |-> <<>>]
    /\ \E r \in CellValues, p \in CellValues : data = OneRow(r, p)
    /\ now = 0
    /\ week \in (-MinWeek)..MaxWeek
    /\ team1_selected = <<"P">>
    /\ team2_selected = <<>>
    /\ out = NoOutput

CalculateScore ==
    /\ out.kind = "none"
    /\ out' = [kind |-> "score",
               score |-> calculate_score(team1_selected[1], week, data)]
    /\ UNCHANGED <<scores_file, injury_file, data, now, week,
                   team1_selected, team2_selected>>

NextScore == CalculateScore

SpecScore == InitScore /\ [][NextScore]_vars

(***************************************************************************)
(* SpecMerge: main loads the two files through read_data.                  *)
(***************************************************************************)
\* "Z" is in the injury report only
InjuryFiles ==
    {InjuryFile(sq) : sq \in {<<>>, <<"A">>, <<"F">>, <<"Z">>, <<"A", "F">>,
                              <<"Z", "A">>, <<"F", "Z">>, <<"A", "F", "Z">>,
                              <<"A", "A">>}}

IdentityColumns == {<<"Player_Name">>, <<"Player">>, <<"Player_Name", "Player">>, <<>>}

InitMerge ==
    /\ \E idcols \in IdentityColumns :
       \E names \in SeqsUpTo({"A", "F", "H"}, MaxMergeRows) \ {<<>>} :
           scores_file = ScoresFile(idcols, names)
    /\ injury_file \in InjuryFiles
    /\ data = EmptyFrame
    /\ now = 0
    /\ week = calculate_week(now)
    /\ team1_selected = <<>>
    /\ team2_selected = <<>>
    /\ out = NoOutput

\* main, lines 293-305
LoadData ==
    /\ data' = read_data(scores_file, injury_file)
    /\ out' = IF data'.rows = <<>> THEN [kind |-> "load_error"]
              ELSE [kind |-> "loaded"]
    /\ UNCHANGED <<scores_file, injury_file, now, week,
                   team1_selected, team2_selected>>

NextMerge == out.kind = "none" /\ LoadData

SpecMerge == InitMerge /\ [][NextMerge]_vars

\* the performance table's identity column
IdentityColumn ==
    IF InSeq("Player_Name", scores_file.columns) THEN "Player_Name" ELSE "Player"

InjuryPlayers == {injury_file.rows[j]["Player"] : j \in 1..Len(injury_file.rows)}

\* C6: for a performance table with identity column Player_Name, or Player
\* when Player_Name is absent, and an injury table with unique Player
\* values, the merged output has exactly one row per performance row, each
\* carrying its identity value, its Regular and its Projection; a player of
\* the injury table only does not appear; a row with no injury row gets
\* Injury = "Healthy" and Status = "Active".
C6_MergeKeepsPerformanceRows ==
    (/\ out.kind # "none"
     /\ InSeq(IdentityColumn, scores_file.columns)
     /\ NoRepeat([j \in 1..Len(injury_file.rows) |-> injury_file.rows[j]["Player"]]))
    => /\ Len(data.rows) = Len(scores_file.rows)
       /\ \A i \in 1..Len(data.rows) :
            LET row  == data.rows[i]
                perf == scores_file.rows[i]
            IN  /\ IdentityColumn \in DOMAIN row
                /\ row[IdentityColumn] = perf[IdentityColumn]
                /\ row["Regular"] = perf["Regular"]
                /\ row["Projection"] = perf["Projection"]
                /\ perf[IdentityColumn] \notin InjuryPlayers
                      => row["Injury"] = "Healthy" /\ row["Status"] = "Active"

(***************************************************************************)
(* SpecTrade: the trade form is submitted once, for every table, date and  *)
(* pair of selections (players in the order of the table).                 *)
(***************************************************************************)
\* the subsequences of sq of length at most n
RECURSIVE SubSeqsUpTo(_, _)
SubSeqsUpTo(sq, n) ==
    IF sq = <<>> \/ n = 0 THEN {<<>>}
    ELSE SubSeqsUpTo(Tail(sq), n)
         \cup {<<sq[1]>> \o rest : rest \in SubSeqsUpTo(Tail(sq), n - 1)}

\* A, B, C score 10 in every week; D and E trade places over the season;
\* F..I have decimals and cells below the floor
TradeRosters == {<<"A", "B", "C", "D", "E">>, <<"F", "G", "H", "I">>}

\* a date in week 0 (before the base date), in week 10 and in week 23
TradeDates == {-1, 9 * 7 * TicksPerDay, 22 * 7 * TicksPerDay + 1}

PlayerNames(df) == [i \in 1..Len(df.rows) |-> df.rows[i]["Player_Name"]]

InitTrade ==
    /\ \E names \in TradeRosters : scores_file = ScoresFile(<<"Player_Name">>, names)
    /\ injury_file = InjuryFile(<<"A", "F", "Z">>)
    /\ data = read_data(scores_file, injury_file)
    /\ now \in TradeDates
    /\ week = calculate_week(now)
    /\ team1_selected \in SubSeqsUpTo(PlayerNames(data), MaxSide)
    /\ team2_selected \in SubSeqsUpTo(PlayerNames(data), MaxSide)
    /\ out = NoOutput

\* main, lines 364-373, with evaluate_trade
SubmitTrade ==
    /\ out' = submit(data, now, team1_selected, team2_selected)
    /\ week' = calculate_week(now)
    /\ UNCHANGED <<scores_file, injury_file, data, now,
                   team1_selected, team2_selected>>

NextTrade == out.kind = "none" /\ SubmitTrade

SpecTrade == InitTrade /\ [][NextTrade]_vars

Submitted == out.kind \in {"duplicate_error", "empty_warning",
                           "zero_total_warning", "evaluated"}
Overlap == Names(team1_selected) \cap Names(team2_selected) # {}
BothEmpty == team1_selected = <<>> /\ team2_selected = <<>>

\* C1: a submitted trade gets totals, a ratio and a verdict only when the
\* two selections are disjoint and not both empty; a name on both sides
\* ends in the duplicate error, two empty sides in the warning, and neither
\* computes anything.
C1_Validation ==
    Submitted =>
        /\ Overlap => out = [kind |-> "duplicate_error"]
        /\ (~Overlap /\ BothEmpty) => out = [kind |-> "empty_warning"]
        /\ "shown" \in DOMAIN out => (~Overlap /\ ~BothEmpty)
        /\ "trade_ratio" \in DOMAIN out => (~Overlap /\ ~BothEmpty)

C1_Witness ==
    /\ out.kind = "duplicate_error"
    /\ Len(team1_selected) > 1 /\ team1_selected # team2_selected

\* C3: evaluating (B, A) gives the ratio and the verdict of (A, B), with
\* the two side totals exchanged.
C3_Symmetric ==
    out.kind = "evaluated" =>
        LET swapped == evaluate_trade(data, now, team2_selected, team1_selected)
        IN  /\ swapped.kind = "evaluated"
            /\ swapped.trade_ratio = out.trade_ratio
            /\ swapped.approved = out.approved
            /\ swapped.shown.team1_total = out.shown.team2_total
            /\ swapped.shown.team2_total = out.shown.team1_total

C3_Witness ==
    /\ out.kind = "evaluated"
    /\ Len(team1_selected) > Len(team2_selected)
    /\ FCmp(out.shown.team1_total, out.shown.team2_total) > 0
    /\ ~out.approved

PlayerScores(players) ==
    [i \in 1..Len(players) |-> calculate_score(players[i], week, data)]

Max(a, b) == IF a > b THEN a ELSE b

\* what C4 asks of one side: as long as the longer side, its players'
\* scores first, then |difference| fillers of 2.00 if it is the shorter
\* side, its total the players' sum plus 2.00 per filler
SidePadded(players, other, scores, total) ==
    LET fillers == IF Len(players) < Len(other)
                   THEN Len(other) - Len(players) ELSE 0
    IN  /\ Len(scores) = Max(Len(players), Len(other))
        /\ Len(scores) = Len(players) + fillers
        /\ SubSeq(scores, 1, Len(players)) = PlayerScores(players)
        /\ \A i \in (Len(players) + 1)..Len(scores) : scores[i] = FromInt(2)
        /\ total = FAdd(sum(PlayerScores(players)), FromInt(2 * fillers))

\* the example: A of 3 players totalling 30, B of 2 players totalling 20
Example30v20 ==
    /\ Len(team1_selected) = 3 /\ Len(team2_selected) = 2
    /\ sum(PlayerScores(team1_selected)) = FromInt(30)
    /\ sum(PlayerScores(team2_selected)) = FromInt(20)

\* C4: only the shorter side is padded, with |len(A) - len(B)| fillers of
\* 2.00, so both sides end equally long and each total is the players' sum
\* plus 2.00 per filler; 3 players totalling 30 against 2 totalling 20 give
\* B one filler, a total of 22, the ratio 22/30 and no approval.
C4_Padding ==
    out.kind = "evaluated" =>
        /\ SidePadded(team1_selected, team2_selected,
                      out.shown.team1_scores, out.shown.team1_total)
        /\ SidePadded(team2_selected, team1_selected,
                      out.shown.team2_scores, out.shown.team2_total)
        /\ Example30v20 =>
              /\ out.shown.team1_total = FromInt(30)
              /\ out.shown.team2_total = FromInt(22)
              /\ out.trade_ratio = FDiv(FromInt(22), FromInt(30))
              /\ ~out.approved

C4_Witness == out.kind = "evaluated" /\ Example30v20

RankPlayers == {"A", "J", "H", "F", "I"}

\* a date in week 1, in week 10 and in week 23
RankDates == {0, 9 * 7 * TicksPerDay, 22 * 7 * TicksPerDay + 1}

InitRank ==
    /\ \E names \in SeqsUpTo(RankPlayers, MaxRankRows) \ {<<>>} :
          /\ NoRepeat(names)
          /\ scores_file = ScoresFile(<<"Player_Name">>, names)
    /\ injury_file = InjuryFile(<<"A", "F", "Z">>)
    /\ data = read_data(scores_file, injury_file)
    /\ now \in RankDates
    /\ week = calculate_week(now)
    /\ team1_selected = <<>>
    /\ team2_selected = <<>>
    /\ out = NoOutput

\* main, lines 394-395
ShowRankings ==
    /\ \E r \in display_player_rankings(data, now) :
          /\ data' = r.data
          /\ week' = r.week
          /\ out' = [kind |-> "rankings", shown |-> r.shown]
    /\ UNCHANGED <<scores_file, injury_file, now, team1_selected, team2_selected>>

NextRank == out.kind = "none" /\ ShowRankings

SpecRank == InitRank /\ [][NextRank]_vars

Reverse(sq) == [i \in 1..Len(sq) |-> sq[Len(sq) + 1 - i]]

Ranked == out.kind = "rankings"
RankedRows == out.shown.table.rows
RankedNames == [k \in 1..Len(RankedRows) |-> RankedRows[k]["Player_Name"]]

\* the ranked rows are the table's rows, each once, ranks 1..n by position
RankedIsPermutation ==
    /\ Len(RankedRows) = Len(data.rows)
    /\ out.shown.index = [k \in 1..Len(data.rows) |-> k]
    /\ \E p \in Orderings(Len(data.rows)) :
          \A k \in 1..Len(data.rows) :
              /\ RankedRows[k]["Player_Name"] = data.rows[p[k]]["Player_Name"]
              /\ RankedRows[k]["Regular"] = data.rows[p[k]]["Regular"]
              /\ RankedRows[k]["Projection"] = data.rows[p[k]]["Projection"]

\* the place of a ranked row in the input table
PlaceOf(name) == CHOOSE i \in 1..Len(data.rows) : data.rows[i]["Player_Name"] = name

\* the names in rank order, for each outcome of ranking the reversed table
ReversedRankings ==
    {[k \in 1..Len(r.shown.table.rows) |-> r.shown.table.rows[k]["Player_Name"]] :
        r \in display_player_rankings([data EXCEPT !.rows = Reverse(data.rows)], now)}

\* C7 as stated: a stable descending sort by the unrounded score of the
\* unfloored cells; with pairwise unequal scores the reversed table ranks
\* every player the same.
C7_Original ==
    Ranked =>
        /\ RankedIsPermutation
        /\ \A k \in 1..(Len(RankedRows) - 1) :
              LET c == FCmp(RawScore(RankedRows[k], week), RawScore(RankedRows[k + 1], week))
              IN  /\ c >= 0
                  /\ c = 0 => PlaceOf(RankedNames[k]) < PlaceOf(RankedNames[k + 1])
        /\ (\A i, j \in 1..Len(data.rows) :
               i # j => RawScore(data.rows[i], week) # RawScore(data.rows[j], week))
           => ReversedRankings = {RankedNames}

\* C7 amended: a descending sort by the score rounded to two decimals, ties
\* in any order; with pairwise unequal rounded scores the reversed table
\* ranks every player the same.
C7_Amended ==
    Ranked =>
        /\ RankedIsPermutation
        /\ \A k \in 1..(Len(RankedRows) - 1) :
              FCmp(round2(RawScore(RankedRows[k], week)),
                   round2(RawScore(RankedRows[k + 1], week))) >= 0
        /\ (\A i, j \in 1..Len(data.rows) :
               i # j => round2(RawScore(data.rows[i], week))
                           # round2(RawScore(data.rows[j], week)))
           => ReversedRankings = {RankedNames}

\* three rows of unequal rounded score, not ranked in table order
C7_Witness ==
    /\ Ranked
    /\ Len(RankedRows) = 3
    /\ \A i, j \in 1..3 :
          i # j => round2(RawScore(data.rows[i], week)) # round2(RawScore(data.rows[j], week))
    /\ RankedNames # PlayerNames(data)
    /\ ReversedRankings = {RankedNames}

Scored == out.kind = "score"
RegularOf == data.rows[1]["Regular"]
ProjectionOf == data.rows[1]["Projection"]
IsWhole(c) == c % 100 = 0

\* C2: the score is at least 2 for every Regular, every Projection and
\* every integer week, negative weeks and weeks beyond 20 included.
C2_ScoreAtLeastTwo ==
    Scored => FCmp(out.score, FromInt(2)) >= 0

\* the final floor acts: a week beyond 20 drives the interpolation below 2
C2_Witness ==
    /\ Scored
    /\ week > 20
    /\ FCmp(Interpolate(week, Max2(CellFloat(RegularOf)),
                              Max2(CellFloat(ProjectionOf))), FromInt(2)) < 0
    /\ out.score = FromInt(2)

\* C9 as stated: at week 0 the score is max(2, Projection), at week 20 it is
\* max(2, Regular), for weeks 0..20 with Regular = Projection = r >= 2 it is
\* r exactly, and Regular 10, Projection 20, week 10 give 15.
C9_Original ==
    Scored =>
        /\ week = 0 => out.score = Max2(CellFloat(ProjectionOf))
        /\ week = 20 => out.score = Max2(CellFloat(RegularOf))
        /\ (week \in 0..20 /\ RegularOf = ProjectionOf /\ RegularOf >= 200)
              => out.score = CellFloat(RegularOf)
        /\ (RegularOf = 1000 /\ ProjectionOf = 2000 /\ week = 10)
              => out.score = FromInt(15)

\* C9 amended: the same, for whole-number Regular and Projection; with
\* decimals the float arithmetic may round the result off the input.
C9_Amended ==
    (Scored /\ IsWhole(RegularOf) /\ IsWhole(ProjectionOf)) =>
        /\ week = 0 => out.score = Max2(CellFloat(ProjectionOf))
        /\ week = 20 => out.score = Max2(CellFloat(RegularOf))
        /\ (week \in 0..20 /\ RegularOf = ProjectionOf /\ RegularOf >= 200)
              => out.score = CellFloat(RegularOf)
        /\ (RegularOf = 1000 /\ ProjectionOf = 2000 /\ week = 10)
              => out.score = FromInt(15)

C9_Witness ==
    /\ Scored
    /\ RegularOf = 1000 /\ ProjectionOf = 2000 /\ week = 10
    /\ out.score = FromInt(15)

\* C10: current_week is 0 before the base date, at least 1 from it on (1 in
\* the first seven days, one more every 7 days, no upper clamp), never
\* negative, and never decreases as the date advances.
C10_WeekClock ==
    /\ [](/\ week >= 0
          /\ now < 0 => week = 0
          /\ now >= 0 => /\ week >= 1
                         /\ 7 * TicksPerDay * (week - 1) <= now
                         /\ now < 7 * TicksPerDay * week)
    /\ [][week' >= week]_vars

C10_Witness == now > 20 * 7 * TicksPerDay /\ week = 21

(***************************************************************************)
(* Spec: one session of main.  The table is loaded, and then trades are    *)
(* evaluated and the rankings shown in any order while the clock runs;     *)
(* the table can be loaded again at any time.                              *)
(***************************************************************************)
\* the session starts one tick before the end of week 1 and lasts at most
\* MaxSessionTicks ticks
MaxSessionTicks == 2
SessionStart == 7 * TicksPerDay - 1

SessionRoster == <<"A", "J", "H", "F">>

\* the selections of the session
SessionTeams == {<<>>, <<"J">>, <<"A", "H">>, <<"H", "F">>}

Init ==
    /\ scores_file = ScoresFile(<<"Player_Name">>, SessionRoster)
    /\ injury_file = InjuryFile(<<"A", "F", "Z">>)
    /\ data = read_data(scores_file, injury_file)
    /\ now = SessionStart
    /\ week = calculate_week(now)
    /\ team1_selected \in SessionTeams
    /\ team2_selected \in SessionTeams
    /\ out = NoOutput

SessionTick == now < SessionStart + MaxSessionTicks /\ Tick

Next == LoadData \/ SubmitTrade \/ ShowRankings \/ SessionTick

Spec == Init /\ [][Next]_vars

\* the table right after the merge
Merged == read_data(scores_file, injury_file)

IsPrefix(sq, of) == Len(sq) <= Len(of) /\ SubSeq(of, 1, Len(sq)) = sq

\* the derived score columns display_player_rankings writes
DerivedColumns == {"Total_Score"} \cup {DisplayColumn(calculate_week(t)) :
                                          t \in SessionStart..(SessionStart + MaxSessionTicks + 1)}

\* C8: after any sequence of ranking computations and trade evaluations on
\* a loaded table, the rows, their order and every row's Player_Name,
\* Regular and Projection are as right after the merge, only derived score
\* columns are added, and a trade evaluation gives the result it gives on
\* the table right after the merge in the same week.
C8_TableUnchanged ==
    /\ Len(data.rows) = Len(Merged.rows)
    /\ \A i \in 1..Len(data.rows) :
          \A c \in {"Player_Name", "Regular", "Projection"} :
              data.rows[i][c] = Merged.rows[i][c]
    /\ IsPrefix(Merged.columns, data.columns)
    /\ \A k \in (Len(Merged.columns) + 1)..Len(data.columns) :
          data.columns[k] \in DerivedColumns
    /\ out.kind \in {"evaluated", "zero_total_warning"}
          => out = trade_in_week(Merged, out.shown.week, team1_selected,
                                 team2_selected)

\* a trade is evaluated on a table that carries the score columns of a
\* ranking computed in the same week
C8_Witness ==
    /\ out.kind = "evaluated"
    /\ InSeq("Total_Score", data.columns)
    /\ InSeq(DisplayColumn(out.shown.week), data.columns)

====
